---- MODULE Spec2Model ----
(***************************************************************************)
(* Call / recording correlation of the Matrix <-> LiveKit recording bot.   *)
(*                                                                         *)
(* State: the two in-memory registries of CommandHandler (active_calls,    *)
(* active_recordings), the `recordings` table, the egress jobs of the      *)
(* LiveKit backend, the dev_mode switch of the LiveKit configuration and   *)
(* a logical clock standing for datetime.utcnow().                         *)
(*                                                                         *)
(* Under Spec every handler (a chat message, a call-signalling event, a    *)
(* webhook request) runs to completion as one action: matrix-nio awaits    *)
(* each callback before it dispatches the next event.  The database is     *)
(* available; the only persistence error is the unique constraint on       *)
(* recordings.egress_id.                                                   *)
(***************************************************************************)
EXTENDS Integers, Sequences, FiniteSets, TLC

VARIABLES
    active_calls,       \* CommandHandler.active_calls: room_id -> call_id
    active_recordings,  \* CommandHandler.active_recordings: room_id -> egress_id
    db,                 \* table recordings: egress_id -> row
    backend,            \* LiveKit egress jobs: egress_id -> job state
    dev_mode,           \* LiveKitConfig.dev_mode
    now,                \* datetime.utcnow()
    last,               \* observable outcome of the handler that ran last
    steps,              \* number of events handled so far
    tasks               \* handlers suspended at an await

vars == <<active_calls, active_recordings, db, backend, dev_mode, now, last,
          steps, tasks>>

----------------------------------------------------------------------------
(* Bounds *)
MaxEgress == 2      \* egress ids the backend can issue
MaxTime   == 1      \* ticks of the clock
MaxSteps  == 5      \* events (messages, call events, webhooks, ticks) handled
MaxSetup  == 3      \* events handled whole before handlers start to interleave

----------------------------------------------------------------------------
(* Values *)
None      == "None"
NoTime    == -1
Rooms     == {"r1", "r2"}
BotUserId == "@bot"
Users     == {"@alice", BotUserId}
EgressIds == 1..MaxEgress

\* RecordingStatus
ACTIVE     == "active"
PROCESSING == "processing"
COMPLETED  == "completed"
FAILED     == "failed"
STOPPED    == "stopped"
RecordingStatus == {ACTIVE, PROCESSING, COMPLETED, FAILED, STOPPED}
Terminal == {COMPLETED, FAILED, STOPPED}

\* Staleness thresholds, in seconds
MessageMaxAge   == 30
CallEventMaxAge == 120

\* Python dict helpers: a dict is a function whose domain is its key set
DictSet(d, k, v) == [x \in (DOMAIN d) \cup {k} |-> IF x = k THEN v ELSE d[x]]
DictDel(d, k)    == [x \in (DOMAIN d) \ {k} |-> d[x]]
EmptyDict        == [x \in {} |-> None]

Min(S) == CHOOSE x \in S : \A y \in S : x <= y

----------------------------------------------------------------------------
(* Strings of event content are sequences of characters *)
Str(s) == <<s>>
IsSpace(c) == c = " "

RECURSIVE LStrip(_)
LStrip(s) == IF s # <<>> /\ IsSpace(Head(s)) THEN LStrip(Tail(s)) ELSE s

RECURSIVE RStrip(_)
RStrip(s) == IF s # <<>> /\ IsSpace(s[Len(s)])
             THEN RStrip(SubSeq(s, 1, Len(s) - 1)) ELSE s

\* str.strip()
Strip(s) == RStrip(LStrip(s))

----------------------------------------------------------------------------
(* Table recordings and RecordingsRepository *)

\* Recording(**recording_data): columns not given take their defaults
NewRow(data) ==
    [room_name      |-> data.room_name,
     matrix_room_id |-> IF "matrix_room_id" \in DOMAIN data
                        THEN data.matrix_room_id ELSE None,
     started_by     |-> IF "started_by" \in DOMAIN data
                        THEN data.started_by ELSE None,
     stopped_by     |-> None,
     status         |-> data.status,
     stopped_at     |-> NoTime,
     completed_at   |-> NoTime]

\* A table without the unique constraint on egress_id
CreateRaisesNever(d, e) == FALSE

\* egress_id is declared unique: a second row for it raises IntegrityError
CreateRaises(d, e) == e \in DOMAIN d

\* RecordingsRepository.create
Create(d, e, data) == DictSet(d, e, NewRow(data))

\* RecordingsRepository.get_by_egress_id: is there a row
GetByEgressId(d, e) == e \in DOMAIN d

\* RecordingsRepository.update_by_egress_id: UPDATE ... WHERE egress_id = e
UpdateByEgressId(d, e, update_data) ==
    IF e \in DOMAIN d
    THEN [d EXCEPT ![e] = [f \in DOMAIN d[e] |->
                             IF f \in DOMAIN update_data
                             THEN update_data[f] ELSE d[e][f]]]
    ELSE d

\* Columns of table recordings
Columns ==
    {"id", "egress_id", "room_name", "matrix_room_id", "file_path", "file_url",
     "file_size", "duration", "bucket", "object_key", "started_by", "stopped_by",
     "status", "started_at", "stopped_at", "completed_at", "created_at",
     "updated_at", "context"}

\* update(Recording).values(**update_data) raises on a key that is no column
\* of Recording, before any statement reaches the database
UpdateRaises(update_data) == ~(DOMAIN update_data \subseteq Columns)

----------------------------------------------------------------------------
(* LiveKit backend, as LiveKitClient sees it *)

\* Error classes an exception text falls into
ErrNone     == "none"
ErrNotFound == "not_found"   \* text has "room does not exist" or "not_found"
ErrOther    == "other"

\* One backend call of a handler: what was called, on what, how it ended
Call(fn, arg, err) == <<fn, arg, err>>

FreeEgress(be) == {e \in EgressIds : be[e] = "free"}

\* LiveKitClient.start_recording: a new egress job, or an exception
BackendStart(be) ==
    {[err |-> x, egress_id |-> 0, backend |-> be] : x \in {ErrNotFound, ErrOther}}
    \cup
    (IF FreeEgress(be) # {}
     THEN {[err |-> ErrNone, egress_id |-> Min(FreeEgress(be)),
            backend |-> [be EXCEPT ![Min(FreeEgress(be))] = "running"]]}
     ELSE {})

\* LiveKitClient.create_room: done, or an exception
BackendCreateRoom == {ErrNone, ErrNotFound, ErrOther}

\* LiveKitClient.stop_recording: the job is stopped, or an exception
BackendStop(be, e) ==
    {[err |-> ErrNone, backend |-> [be EXCEPT ![e] = "stopped"]],
     [err |-> ErrOther, backend |-> be]}

----------------------------------------------------------------------------
(* RecordingService *)

\* PersistStarted without the row: the recording is returned, never stored
PersistStartedNoCreate(d, r, calls, t, room_name, matrix_room_id, started_by) ==
    [err |-> ErrNone, egress_id |-> r.egress_id, calls |-> calls,
     db |-> d, backend |-> r.backend]

\* RecordingService.start_recording, after the backend returned egress id e
PersistStarted(d, r, calls, t, room_name, matrix_room_id, started_by) ==
    IF CreateRaises(d, r.egress_id)
    THEN [err |-> ErrOther, egress_id |-> r.egress_id, calls |-> calls,
          db |-> d, backend |-> r.backend]
    ELSE [err |-> ErrNone, egress_id |-> r.egress_id, calls |-> calls,
          db |-> Create(d, r.egress_id,
                        [room_name |-> room_name,
                         matrix_room_id |-> matrix_room_id,
                         started_by |-> started_by,
                         status |-> ACTIVE]),
          backend |-> r.backend]

StartRaised(d, be, err, calls) ==
    [err |-> err, egress_id |-> 0, calls |-> calls, db |-> d, backend |-> be]

\* RecordingService.start_recording up to the egress id: the backend calls it
\* awaits, with the room created and the start retried in dev_mode
StartBackend(be, dm, room_name) ==
    LET Ret(r, calls) == [err |-> r.err, egress_id |-> r.egress_id,
                          backend |-> r.backend, calls |-> calls]
        c1(r1)        == <<Call("start_recording", room_name, r1.err)>>
        c2(r1, c)     == Append(c1(r1), Call("create_room", room_name, c))
        c3(r1, c, r2) == Append(c2(r1, c),
                                Call("start_recording", room_name, r2.err))
        Retry(r1) ==
            UNION {IF c # ErrNone
                   THEN {[err |-> c, egress_id |-> 0, backend |-> be,
                          calls |-> c2(r1, c)]}
                   ELSE {Ret(r2, c3(r1, c, r2)) : r2 \in BackendStart(be)}
                   : c \in BackendCreateRoom}
    IN UNION {IF r1.err = ErrNotFound /\ dm
              THEN Retry(r1)
              ELSE {Ret(r1, c1(r1))}
              : r1 \in BackendStart(be)}

\* RecordingService.start_recording: every way one call can go
StartRecording(d, be, dm, t, room_name, matrix_room_id, started_by) ==
    {IF b.err = ErrNone
     THEN PersistStarted(d, b, b.calls, t, room_name, matrix_room_id, started_by)
     ELSE StartRaised(d, be, b.err, b.calls)
     : b \in StartBackend(be, dm, room_name)}

\* StopRecording with the row updated before the backend has answered
StopRecordingWriteFirst(d, be, t, e) ==
    {[err |-> s.err, calls |-> <<Call("stop_recording", e, s.err)>>,
      db |-> UpdateByEgressId(d, e, [status |-> STOPPED, stopped_at |-> t]),
      backend |-> s.backend]
     : s \in BackendStop(be, e)}

\* RecordingService.stop_recording: every way one call can go
StopRecording(d, be, t, e) ==
    {IF s.err = ErrNone
     THEN [err |-> ErrNone, calls |-> <<Call("stop_recording", e, s.err)>>,
           db |-> UpdateByEgressId(d, e, [status |-> STOPPED, stopped_at |-> t]),
           backend |-> s.backend]
     ELSE [err |-> s.err, calls |-> <<Call("stop_recording", e, s.err)>>,
           db |-> d, backend |-> be]
     : s \in BackendStop(be, e)}

----------------------------------------------------------------------------
(* CommandHandler *)

\* Response texts, by kind
RespAlreadyRecording  == "AlreadyRecording"     \* "Recording already in progress..."
RespNoActiveCall      == "NoActiveCall"         \* "No active call in this room..."
RespStarted           == "Started"              \* "Recording started!"
RespStartedCreated    == "StartedCreated"       \* "Recording started! ... (created)"
RespCreatedButFailed  == "CreatedButFailed"     \* "Room created but recording failed"
RespRoomDoesNotExist  == "RoomDoesNotExist"     \* "LiveKit room ... does not exist."
RespStartFailed       == "StartFailed"          \* "Failed to start recording: ..."
RespNoSuchRecording   == "NoSuchRecording"      \* "No active recording found..."
RespStopped           == "Stopped"              \* "Recording stopped!"
RespStopFailed        == "StopFailed"           \* "Failed to stop recording: ..."
RespUsage             == "Usage"                \* "Usage: /record start|stop"
RespUnknownAction     == "UnknownAction"        \* "Unknown action: ..."

\* What a handler did: its answer, the backend calls it made, the state it left
Out(op, resp, egress, calls, ac, ar, d, be) ==
    [op |-> op, resp |-> resp, egress |-> egress, calls |-> calls,
     active_calls |-> ac, active_recordings |-> ar, db |-> d, backend |-> be]

\* The import of LiveKitConfig resolves
RelativeImportResolves == FALSE

\* `from ...config.config import LiveKitConfig` inside src.bot.commands climbs
\* above the top-level package src and raises ImportError
RelativeImportRaises == TRUE

\* CommandHandler._handle_record_start, the except branch for a missing room
RecordStartMissingRoom(ac, ar, dm, t, room, sender, name, s) ==
    LET giveUp(calls) == Out("record_start", RespRoomDoesNotExist, 0, calls,
                             ac, ar, s.db, s.backend)
        cc(c) == Append(s.calls, Call("create_room", name, c))
    IN IF RelativeImportRaises \/ ~dm
       THEN {giveUp(s.calls)}
       ELSE UNION {IF c # ErrNone
                   THEN {giveUp(cc(c))}
                   ELSE {IF s2.err = ErrNone
                         THEN Out("record_start", RespStartedCreated, s2.egress_id,
                                  cc(c) \o s2.calls, ac,
                                  DictSet(ar, room, s2.egress_id), s2.db, s2.backend)
                         ELSE Out("record_start", RespCreatedButFailed, 0,
                                  cc(c) \o s2.calls, ac, ar, s2.db, s2.backend)
                         : s2 \in StartRecording(s.db, s.backend, dm, t, name,
                                                 room, sender)}
                   : c \in BackendCreateRoom}

\* RecordStartTry that claims the room before the service has answered and
\* leaves the claim behind when the start fails
RecordStartTryKeepsClaim(ac, ar, d, be, dm, t, room, sender, name) ==
    {IF x.resp = RespStarted THEN x
     ELSE [x EXCEPT !.active_recordings = DictSet(ar, room, 0)]
     : x \in UNION {IF s.err = ErrNone
                    THEN {Out("record_start", RespStarted, s.egress_id, s.calls,
                              ac, DictSet(ar, room, s.egress_id), s.db, s.backend)}
                    ELSE IF s.err = ErrNotFound
                    THEN RecordStartMissingRoom(ac, ar, dm, t, room, sender, name, s)
                    ELSE {Out("record_start", RespStartFailed, 0, s.calls,
                              ac, ar, s.db, s.backend)}
                    : s \in StartRecording(d, be, dm, t, name, room, sender)}}

\* CommandHandler._handle_record_start, from the try on: record the room's
\* call under the LiveKit room name `name`
RecordStartTry(ac, ar, d, be, dm, t, room, sender, name) ==
    UNION {IF s.err = ErrNone
           THEN {Out("record_start", RespStarted, s.egress_id, s.calls, ac,
                     DictSet(ar, room, s.egress_id), s.db, s.backend)}
           ELSE IF s.err = ErrNotFound
           THEN RecordStartMissingRoom(ac, ar, dm, t, room, sender, name, s)
           ELSE {Out("record_start", RespStartFailed, 0, s.calls,
                     ac, ar, s.db, s.backend)}
           : s \in StartRecording(d, be, dm, t, name, room, sender)}

\* HandleRecordStart without the check for a recording in progress
HandleRecordStartNoGuard(ac, ar, d, be, dm, t, room, sender) ==
    IF room \notin DOMAIN ac
    THEN {Out("record_start", RespNoActiveCall, 0, <<>>, ac, ar, d, be)}
    ELSE RecordStartTry(ac, ar, d, be, dm, t, room, sender, ac[room])

\* HandleRecordStart without the check for an active call: the room id
\* stands in for the missing call_id
HandleRecordStartNoCallCheck(ac, ar, d, be, dm, t, room, sender) ==
    IF room \in DOMAIN ar
    THEN {Out("record_start", RespAlreadyRecording, ar[room], <<>>, ac, ar, d, be)}
    ELSE RecordStartTry(ac, ar, d, be, dm, t, room, sender,
                        IF room \in DOMAIN ac THEN ac[room] ELSE Str(room))

\* CommandHandler._handle_record_start
HandleRecordStart(ac, ar, d, be, dm, t, room, sender) ==
    IF room \in DOMAIN ar
    THEN {Out("record_start", RespAlreadyRecording, ar[room], <<>>, ac, ar, d, be)}
    ELSE IF room \notin DOMAIN ac
    THEN {Out("record_start", RespNoActiveCall, 0, <<>>, ac, ar, d, be)}
    ELSE RecordStartTry(ac, ar, d, be, dm, t, room, sender, ac[room])

\* HandleRecordStop without the check for a tracked recording: the lookup
\* yields no egress id and the backend refuses the stop
HandleRecordStopNoGuard(ac, ar, d, be, t, room, sender) ==
    IF room \notin DOMAIN ar
    THEN {Out("record_stop", RespStopFailed, 0,
              <<Call("stop_recording", 0, ErrOther)>>, ac, ar, d, be)}
    ELSE {IF s.err = ErrNone
          THEN Out("record_stop", RespStopped, ar[room], s.calls, ac,
                   DictDel(ar, room), s.db, s.backend)
          ELSE Out("record_stop", RespStopFailed, ar[room], s.calls,
                   ac, ar, s.db, s.backend)
          : s \in StopRecording(d, be, t, ar[room])}

\* CommandHandler._handle_record_stop
HandleRecordStop(ac, ar, d, be, t, room, sender) ==
    IF room \notin DOMAIN ar
    THEN {Out("record_stop", RespNoSuchRecording, 0, <<>>, ac, ar, d, be)}
    ELSE {IF s.err = ErrNone
          THEN Out("record_stop", RespStopped, ar[room], s.calls, ac,
                   DictDel(ar, room), s.db, s.backend)
          ELSE Out("record_stop", RespStopFailed, ar[room], s.calls,
                   ac, ar, s.db, s.backend)
          : s \in StopRecording(d, be, t, ar[room])}

\* A message body is the sequence of its whitespace-separated words
Lower(w) == CASE w = "/RECORD" -> "/record"
              [] w = "Start"   -> "start"
              [] OTHER         -> w

StartsWithSlash(body) == body # <<>> /\ Head(body) \in {"/record", "/RECORD", "/help"}

\* CommandHandler.handle_command
HandleCommand(ac, ar, d, be, dm, t, parts, room, sender) ==
    IF parts = <<>>
    THEN {Out("command", None, 0, <<>>, ac, ar, d, be)}
    ELSE IF Lower(parts[1]) = "/record"
    THEN IF Len(parts) < 2
         THEN {Out("command", RespUsage, 0, <<>>, ac, ar, d, be)}
         ELSE IF Lower(parts[2]) = "start"
         THEN HandleRecordStart(ac, ar, d, be, dm, t, room, sender)
         ELSE IF Lower(parts[2]) = "stop"
         THEN HandleRecordStop(ac, ar, d, be, t, room, sender)
         ELSE {Out("command", RespUnknownAction, 0, <<>>, ac, ar, d, be)}
    ELSE {Out("command", None, 0, <<>>, ac, ar, d, be)}

\* CommandHandler.register_call
RegisterCall(ac, room, call_id) == DictSet(ac, room, call_id)

\* UnregisterCall that reads the call without removing it
UnregisterCallNoPop(ac, ar, room) ==
    IF room \in DOMAIN ac
    THEN [active_calls |-> ac,
          egress_id    |-> IF room \in DOMAIN ar THEN ar[room] ELSE 0]
    ELSE [active_calls |-> ac, egress_id |-> 0]

\* UnregisterCall that hands out the tracked egress of a room without a call
UnregisterCallAnyRoom(ac, ar, room) ==
    [active_calls |-> IF room \in DOMAIN ac THEN DictDel(ac, room) ELSE ac,
     egress_id    |-> IF room \in DOMAIN ar THEN ar[room] ELSE 0]

\* CommandHandler.unregister_call: the registry left, and the egress to stop (0: none)
UnregisterCall(ac, ar, room) ==
    IF room \in DOMAIN ac
    THEN [active_calls |-> DictDel(ac, room),
          egress_id    |-> IF room \in DOMAIN ar THEN ar[room] ELSE 0]
    ELSE [active_calls |-> ac, egress_id |-> 0]

----------------------------------------------------------------------------
(* EventHandler *)

CALL_EVENT_TYPES ==
    {"org.matrix.msc3401.call", "org.matrix.msc3401.call.member",
     "org.matrix.msc4075.call.notify", "m.call.negotiate", "m.call.sdp",
     "m.call.candidates"}

\* Every listed call event type taken for a call start
CallStartEventsAll == CALL_EVENT_TYPES

CALL_START_EVENTS ==
    {"org.matrix.msc3401.call", "org.matrix.msc3401.call.member",
     "org.matrix.msc4075.call.notify", "m.call.negotiate"}

CALL_END_EVENTS == {"m.call.hangup", "m.call.reject"}

\* Event types the model delivers
EventTypes == CALL_EVENT_TYPES \cup CALL_END_EVENTS
                  \cup {"m.call.invite", "m.room.topic"}

\* Types whose text has one of 'call', 'negotiate', 'sdp', 'candidates'
ContainsCallWord(event_type) == event_type # "m.room.topic"

IsCallEvent(event_type) ==
    event_type \in CALL_EVENT_TYPES \/ ContainsCallWord(event_type)

\* IsStale with twice the window
IsStaleAtTwice(age, max_age) == age # NoTime /\ age > 2 * max_age

\* Age check of both handlers: a missing timestamp (NoTime) is never stale
IsStale(age, max_age) == age # NoTime /\ age > max_age

\* IsSelf that takes no event for the bot's own
IsSelfNever(sender) == FALSE

\* sender == self.matrix_bot.client.user_id
IsSelf(sender) == sender = BotUserId

\* Keys under which the content may carry the call identifier, in lookup order
CallIdAliases == <<"call_id", "callID", "conf_id", "conference_id">>

\* content.get(a1) or content.get(a2) or ...: the first non-empty value
RECURSIVE FirstTruthy(_, _)
FirstTruthy(content, i) ==
    IF i > Len(CallIdAliases) THEN <<>>
    ELSE IF CallIdAliases[i] \in DOMAIN content /\ content[CallIdAliases[i]] # <<>>
         THEN content[CallIdAliases[i]]
         ELSE FirstTruthy(content, i + 1)

\* hashlib.md5(f"{room_id}{event_id}").hexdigest()[:16]: a digest of the pair
Md5Hex16(room_id, event_id) == <<"md5", room_id, event_id>>

\* f"{room_id}_{event_type}"[:32]
FallbackCallId(room_id, event_type) == <<room_id, "_", event_type>>

\* ExtractCallId that takes the identifier as the content has it
ExtractCallIdNoStrip(content, room_id, event_id, event_type) ==
    LET call_id == FirstTruthy(content, 1)
    IN IF call_id # <<>> THEN call_id
       ELSE IF event_id # None THEN Md5Hex16(room_id, event_id)
       ELSE FallbackCallId(room_id, event_type)

\* EventHandler.handle_unknown_event: the call_id of an event
ExtractCallId(content, room_id, event_id, event_type) ==
    LET call_id == Strip(FirstTruthy(content, 1))
    IN IF call_id # <<>> THEN call_id
       ELSE IF event_id # None THEN Md5Hex16(room_id, event_id)
       ELSE FallbackCallId(room_id, event_type)

\* EventHandler.handle_unknown_event, call-start branch, no call registered:
\* register the call and, in dev_mode, create its LiveKit room
CallStartRegister(ac, ar, d, be, dm, room, call_id) ==
    IF dm
    THEN {Out("call_start", None, 0, <<Call("create_room", call_id, c)>>,
              RegisterCall(ac, room, call_id), ar, d, be)
          : c \in BackendCreateRoom}
    ELSE {Out("call_start", None, 0, <<>>,
              RegisterCall(ac, room, call_id), ar, d, be)}

\* HandleCallStart without the check for a registered call
HandleCallStartOverwrite(ac, ar, d, be, dm, room, call_id) ==
    CallStartRegister(ac, ar, d, be, dm, room, call_id)

\* HandleCallStart that creates the LiveKit room again for a registered call
HandleCallStartRecreates(ac, ar, d, be, dm, room, call_id) ==
    IF room \notin DOMAIN ac
    THEN CallStartRegister(ac, ar, d, be, dm, room, call_id)
    ELSE IF dm
    THEN {Out("call_start", None, 0, <<Call("create_room", call_id, c)>>,
              ac, ar, d, be) : c \in BackendCreateRoom}
    ELSE {Out("call_start", None, 0, <<>>, ac, ar, d, be)}

\* EventHandler.handle_unknown_event, call-start branch
HandleCallStart(ac, ar, d, be, dm, room, call_id) ==
    IF room \notin DOMAIN ac
    THEN CallStartRegister(ac, ar, d, be, dm, room, call_id)
    ELSE {Out("call_start", None, 0, <<>>, ac, ar, d, be)}

\* HandleCallEnd that forgets the recording even when its stop failed
HandleCallEndUntracks(ac, ar, d, be, t, room) ==
    LET u == UnregisterCall(ac, ar, room)
    IN IF u.egress_id # 0
       THEN {Out("call_end", None, u.egress_id, s.calls, u.active_calls,
                 DictDel(ar, room), s.db, s.backend)
             : s \in StopRecording(d, be, t, u.egress_id)}
       ELSE {Out("call_end", None, 0, <<>>, u.active_calls, ar, d, be)}

\* EventHandler.handle_unknown_event, hangup/reject branch
HandleCallEnd(ac, ar, d, be, t, room) ==
    LET u == UnregisterCall(ac, ar, room)
    IN IF u.egress_id # 0
       THEN {IF s.err = ErrNone
             THEN Out("call_end", None, u.egress_id, s.calls, u.active_calls,
                      DictDel(ar, room), s.db, s.backend)
             ELSE Out("call_end", None, u.egress_id, s.calls, u.active_calls,
                      ar, s.db, s.backend)
             : s \in StopRecording(d, be, t, u.egress_id)}
       ELSE {Out("call_end", None, 0, <<>>, u.active_calls, ar, d, be)}

\* EventHandler.handle_unknown_event
HandleUnknownEvent(ac, ar, d, be, dm, t, room, sender, event_type, age, content, event_id) ==
    IF IsStale(age, CallEventMaxAge)
    THEN {Out("event_stale", None, 0, <<>>, ac, ar, d, be)}
    ELSE IF ~IsCallEvent(event_type)
    THEN {Out("event_not_call", None, 0, <<>>, ac, ar, d, be)}
    ELSE IF IsSelf(sender)
    THEN {Out("event_self", None, 0, <<>>, ac, ar, d, be)}
    ELSE IF event_type \in CALL_START_EVENTS
    THEN HandleCallStart(ac, ar, d, be, dm, room,
                         ExtractCallId(content, room, event_id, event_type))
    ELSE IF event_type \in CALL_END_EVENTS
    THEN HandleCallEnd(ac, ar, d, be, t, room)
    ELSE {Out("call_other", None, 0, <<>>, ac, ar, d, be)}

\* EventHandler.handle_message
HandleMessage(ac, ar, d, be, dm, t, room, sender, age, body) ==
    IF IsSelf(sender)
    THEN {Out("message_self", None, 0, <<>>, ac, ar, d, be)}
    ELSE IF IsStale(age, MessageMaxAge)
    THEN {Out("message_stale", None, 0, <<>>, ac, ar, d, be)}
    ELSE IF StartsWithSlash(body)
    THEN HandleCommand(ac, ar, d, be, dm, t, body, room, sender)
    ELSE {Out("message", None, 0, <<>>, ac, ar, d, be)}

----------------------------------------------------------------------------
(* Webhook endpoint *)

WebhookEvents == {"egress_started", "egress_updated", "egress_ended", "room_started"}

\* Sub-statuses the backend reports in the status field of an egress object
SubStatuses == {"starting", "active", "aborted", "complete"}

\* The payload has "egress": null
NullEgress == [null |-> TRUE]

\* The update egress_ended asks for.  Its other keys (file_path, file_url,
\* file_size, duration, bucket, object_key) are columns of the table.
EndedUpdateData(t, egress_info) ==
    [status       |-> IF egress_info.error THEN FAILED ELSE COMPLETED,
     completed_at |-> t,
     metadata     |-> egress_info]

\* WebhookEgressStarted that leaves an existing record alone
WebhookEgressStartedKeepsExisting(d, e, egress_info) ==
    IF ~GetByEgressId(d, e)
    THEN [db |-> Create(d, e, [room_name |-> IF egress_info.room_name = <<>>
                                             THEN Str("unknown")
                                             ELSE egress_info.room_name,
                               status |-> ACTIVE]),
          recording |-> TRUE, raised |-> FALSE]
    ELSE [db |-> d, recording |-> TRUE, raised |-> FALSE]

\* RecordingService.handle_webhook_event, branch egress_started
WebhookEgressStarted(d, e, egress_info) ==
    IF ~GetByEgressId(d, e)
    THEN IF CreateRaises(d, e)
         THEN [db |-> d, recording |-> FALSE, raised |-> TRUE]
         ELSE [db |-> Create(d, e, [room_name |-> IF egress_info.room_name = <<>>
                                                  THEN Str("unknown")
                                                  ELSE egress_info.room_name,
                                    status |-> ACTIVE]),
               recording |-> TRUE, raised |-> FALSE]
    ELSE [db |-> UpdateByEgressId(d, e, [status |-> ACTIVE]),
          recording |-> TRUE, raised |-> FALSE]

\* RecordingService.handle_webhook_event, branch egress_ended
WebhookEgressEnded(d, t, e, egress_info) ==
    IF UpdateRaises(EndedUpdateData(t, egress_info))
    THEN [db |-> d, recording |-> FALSE, raised |-> TRUE]
    ELSE [db |-> UpdateByEgressId(d, e, EndedUpdateData(t, egress_info)),
          recording |-> GetByEgressId(d, e), raised |-> FALSE]

\* RecordingService.handle_webhook_event: the table it leaves, whether it
\* returns a recording, whether it raises
HandleWebhookEvent(d, t, event_type, egress_info) ==
    LET e == egress_info.egress_id
    IN IF e = 0
       THEN [db |-> d, recording |-> FALSE, raised |-> FALSE]
       ELSE IF event_type = "egress_started"
       THEN WebhookEgressStarted(d, e, egress_info)
       ELSE IF event_type = "egress_ended"
       THEN WebhookEgressEnded(d, t, e, egress_info)
       ELSE [db |-> d, recording |-> FALSE, raised |-> FALSE]

\* handle_livekit_webhook: the HTTP answer when the service returned r
WebhookResponse(event_type, r) ==
    IF r.raised THEN [http |-> 500, message |-> "Error"]
    ELSE IF event_type = "egress_ended" /\ r.recording
    THEN [http |-> 200, message |-> "Recording completed"]
    ELSE IF event_type = "egress_started"
    THEN [http |-> 200, message |-> "Recording started"]
    ELSE IF event_type = "egress_updated"
    THEN [http |-> 200, message |-> "Recording updated"]
    ELSE [http |-> 200, message |-> "Event processed"]

\* handle_livekit_webhook: the table it leaves and the HTTP answer.  Reading
\* egress_id off a null egress object raises, which the route answers with 500.
HandleLivekitWebhook(d, t, event_type, egress_info) ==
    IF egress_info = NullEgress
    THEN [db |-> d, http |-> 500, message |-> "Error"]
    ELSE LET r    == HandleWebhookEvent(d, t, event_type, egress_info)
             resp == WebhookResponse(event_type, r)
         IN [db |-> r.db, http |-> resp.http, message |-> resp.message]

----------------------------------------------------------------------------
(* Inputs *)

\* Age of an event in seconds; NoTime: the event carries no origin timestamp
Ages == {NoTime, MessageMaxAge, MessageMaxAge + 1,
         CallEventMaxAge, CallEventMaxAge + 1}

Bodies == {<<"/record", "start">>, <<"/record", "stop">>, <<"/RECORD", "Start">>,
           <<"/record">>, <<"/record", "pause">>, <<"/help">>, <<"hello">>, <<>>}

\* A chat message: who sent it, how old it is, what it says
Msg(sender, age, body) == [sender |-> sender, age |-> age, body |-> body]

\* The chat messages delivered
Messages ==
    {Msg("@alice", NoTime, body) : body \in Bodies}
    \cup
    {Msg("@alice", MessageMaxAge, <<"/record", "stop">>),
     Msg("@alice", MessageMaxAge + 1, <<"/record", "start">>),
     Msg(BotUserId, NoTime, <<"/record", "start">>)}

\* A call-signalling event
Event(sender, age, event_type, content, event_id) ==
    [sender |-> sender, age |-> age, event_type |-> event_type,
     content |-> content, event_id |-> event_id]

WithCallId == [call_id |-> <<" ", "a", " ">>]

\* Contents an event may carry
Contents == {EmptyDict,
             WithCallId,
             [call_id |-> <<>>, callID |-> <<"a">>],
             [call_id |-> <<" ">>, conf_id |-> <<"a">>],
             [conference_id |-> <<"b">>]}

EventIds == {None, "e1"}

\* The call-signalling events delivered
Events ==
    {Event("@alice", NoTime, ty, WithCallId, "e1") : ty \in EventTypes}
    \cup
    {Event("@alice", NoTime, "org.matrix.msc3401.call", EmptyDict, "e1"),
     Event("@alice", CallEventMaxAge, "org.matrix.msc3401.call.member",
           [call_id |-> <<" ">>, conf_id |-> <<"a">>], "e1"),
     Event("@alice", MessageMaxAge + 1, "org.matrix.msc4075.call.notify",
           [call_id |-> <<>>, callID |-> <<"a">>], "e1"),
     Event("@alice", CallEventMaxAge + 1, "m.call.negotiate", WithCallId, "e1"),
     Event("@alice", CallEventMaxAge + 1, "m.call.hangup", EmptyDict, "e1"),
     Event(BotUserId, NoTime, "m.call.negotiate", WithCallId, "e1"),
     Event(BotUserId, NoTime, "m.call.hangup", EmptyDict, "e1")}

\* The egress object of a webhook payload; egress_id 0: the payload has none,
\* room_name <<>>: the payload has none
EgressInfo(egress_id, room_name, error, status) ==
    [egress_id |-> egress_id, room_name |-> room_name, error |-> error,
     status |-> status]

\* A webhook payload: the event it names and its egress object
Payload(event, egress) == [event |-> event, egress |-> egress]

\* The webhook payloads delivered
Payloads ==
    {Payload("egress_started", EgressInfo(e, <<>>, FALSE, "starting"))
     : e \in EgressIds \cup {0}}
    \cup
    {Payload("egress_started", EgressInfo(1, <<"a">>, FALSE, "starting"))}
    \cup
    {Payload("egress_updated", EgressInfo(e, <<>>, FALSE, st))
     : e \in EgressIds, st \in SubStatuses}
    \cup
    {Payload("egress_ended", EgressInfo(e, <<>>, FALSE, st))
     : e \in EgressIds, st \in {"complete", "aborted"}}
    \cup
    {Payload("egress_ended", EgressInfo(e, <<>>, TRUE, "complete"))
     : e \in EgressIds}
    \cup
    {Payload("room_started", EgressInfo(1, <<>>, FALSE, "starting"))}
    \cup
    {Payload(ev, EgressInfo(0, <<>>, FALSE, "active"))
     : ev \in WebhookEvents \ {"egress_started"}}
    \cup
    {Payload(ev, NullEgress) : ev \in WebhookEvents}

----------------------------------------------------------------------------
(* The state machine *)

Init ==
    /\ active_calls = EmptyDict
    /\ active_recordings = EmptyDict
    /\ db = EmptyDict
    /\ backend = [e \in EgressIds |-> "free"]
    /\ dev_mode \in BOOLEAN
    /\ now = 0
    /\ last = [op |-> "init", room |-> None, resp |-> None, egress |-> 0,
               calls |-> <<>>, http |-> 0, event |-> None, info |-> NullEgress]
    /\ steps = 0
    /\ tasks = {}

\* One more event is handled, from its arrival to the end of its handler
Step == steps < MaxSteps /\ steps' = steps + 1 /\ UNCHANGED tasks

\* A handler of the Matrix event stream ran and left outcome out
Apply(out, room) ==
    /\ Step
    /\ active_calls' = out.active_calls
    /\ active_recordings' = out.active_recordings
    /\ db' = out.db
    /\ backend' = out.backend
    /\ last' = [op |-> out.op, room |-> room, resp |-> out.resp,
                egress |-> out.egress, calls |-> out.calls, http |-> 0,
                event |-> None, info |-> NullEgress]
    /\ UNCHANGED <<dev_mode, now>>

\* MatrixBot._on_message: a chat message arrives
Message ==
    \E room \in Rooms :
        \E out \in UNION {HandleMessage(active_calls, active_recordings, db,
                                        backend, dev_mode, now, room, m.sender,
                                        m.age, m.body) : m \in Messages} :
            Apply(out, room)

\* MatrixBot._on_unknown_event: a call-signalling (or other unknown) event arrives
UnknownEvent ==
    \E room \in Rooms :
        \E out \in UNION {HandleUnknownEvent(active_calls, active_recordings, db,
                                             backend, dev_mode, now, room,
                                             ev.sender, ev.event_type, ev.age,
                                             ev.content, ev.event_id)
                          : ev \in Events} :
            Apply(out, room)

\* Webhook that forgets the tracked recording of an egress that ended
WebhookUntracksEnded ==
    \E payload \in Payloads :
        LET event_type  == payload.event
            egress_info == payload.egress
            r == HandleLivekitWebhook(db, now, event_type, egress_info)
            e == IF egress_info = NullEgress THEN 0 ELSE egress_info.egress_id
            ended == {room \in DOMAIN active_recordings :
                        event_type = "egress_ended" /\ active_recordings[room] = e}
        IN /\ Step
           /\ db' = r.db
           /\ backend' = IF e # 0 /\ backend[e] = "free"
                         THEN [backend EXCEPT ![e] = "oob"] ELSE backend
           /\ active_recordings' = [room \in DOMAIN active_recordings \ ended |->
                                      active_recordings[room]]
           /\ last' = [op |-> "webhook", room |-> None, resp |-> r.message,
                       egress |-> e, calls |-> <<>>, http |-> r.http,
                       event |-> event_type, info |-> egress_info]
           /\ UNCHANGED <<active_calls, dev_mode, now>>

\* POST /webhook/livekit/egress.  The backend reports on an egress job it runs:
\* one the bot started, or one started out of band
Webhook ==
    \E payload \in Payloads :
        LET event_type  == payload.event
            egress_info == payload.egress
            r == HandleLivekitWebhook(db, now, event_type, egress_info)
            e == IF egress_info = NullEgress THEN 0 ELSE egress_info.egress_id
        IN /\ Step
           /\ db' = r.db
           /\ backend' = IF e # 0 /\ backend[e] = "free"
                         THEN [backend EXCEPT ![e] = "oob"] ELSE backend
           /\ last' = [op |-> "webhook", room |-> None, resp |-> r.message,
                       egress |-> e, calls |-> <<>>, http |-> r.http,
                       event |-> event_type, info |-> egress_info]
           /\ UNCHANGED <<active_calls, active_recordings, dev_mode, now>>

\* Time passes
Tick ==
    /\ Step
    /\ now < MaxTime
    /\ now' = now + 1
    /\ last' = [op |-> "tick", room |-> None, resp |-> None, egress |-> 0,
                calls |-> <<>>, http |-> 0, event |-> None, info |-> NullEgress]
    /\ UNCHANGED <<active_calls, active_recordings, db, backend, dev_mode>>

Next == Message \/ UnknownEvent \/ Webhook \/ Tick

Spec == Init /\ [][Next]_vars

TypeOK ==
    /\ DOMAIN active_calls \subseteq Rooms
    /\ DOMAIN active_recordings \subseteq Rooms
    /\ \A r \in DOMAIN active_recordings : active_recordings[r] \in EgressIds
    /\ DOMAIN db \subseteq EgressIds
    /\ \A e \in DOMAIN db : db[e].status \in RecordingStatus
    /\ now \in 0..MaxTime
    /\ \A t \in tasks : /\ t.kind \in {"record_stop", "call_end", "record_start",
                                       "webhook"}
                        /\ t.room \in Rooms \cup {None}
                        /\ t.egress \in EgressIds \cup {0}
                        /\ t.pc \in {"backend", "persist", "create", "update"}

----------------------------------------------------------------------------
(* Handlers that give way at their awaits *)

\* A handler suspended at an await: which handler it is, the room it serves,
\* the egress_id it read, the await it is at, and whether another handler for
\* the room has been in flight together with it
Task(kind, room, egress, pc, raced) ==
    [kind |-> kind, room |-> room, egress |-> egress, pc |-> pc, raced |-> raced,
     name |-> <<>>]

TasksOf(S, room) == {t \in S : t.room = room}

InFlight(S, kind, room) == \E t \in S : t.kind = kind /\ t.room = room

\* A handler for room reaches its first await
Begin(kind, room, egress) ==
    {[t EXCEPT !.raced = t.raced \/ t.room = room] : t \in tasks}
    \cup {Task(kind, room, egress, "backend", TasksOf(tasks, room) # {})}

\* What a suspended or finished handler shows
TaskOutcome(op, t, resp, calls) ==
    [op |-> op, room |-> t.room, resp |-> resp, egress |-> t.egress,
     calls |-> calls, http |-> 0, event |-> None, info |-> NullEgress]

\* CommandHandler._handle_record_stop up to its await of stop_recording
RecordStopBegin ==
    \E room \in Rooms :
        /\ room \in DOMAIN active_recordings
        /\ ~InFlight(tasks, "record_stop", room)
        /\ tasks' = Begin("record_stop", room, active_recordings[room])
        /\ last' = TaskOutcome("record_stop_begin",
                               [room |-> room, egress |-> active_recordings[room]],
                               None, <<>>)
        /\ UNCHANGED <<active_calls, active_recordings, db, backend, dev_mode,
                       now, steps>>

\* EventHandler.handle_unknown_event, hangup/reject branch, up to its await of
\* stop_recording
CallEndBegin ==
    \E room \in Rooms :
        LET u == UnregisterCall(active_calls, active_recordings, room)
        IN /\ u.egress_id # 0
           /\ ~InFlight(tasks, "call_end", room)
           /\ active_calls' = u.active_calls
           /\ tasks' = Begin("call_end", room, u.egress_id)
           /\ last' = TaskOutcome("call_end_begin",
                                  [room |-> room, egress |-> u.egress_id],
                                  None, <<>>)
           /\ UNCHANGED <<active_recordings, db, backend, dev_mode, now, steps>>

\* TaskBackendStop with the row marked STOPPED before the backend has answered
TaskBackendStopWritesFirst ==
    \E t \in tasks :
        \E s \in BackendStop(backend, t.egress) :
            LET calls == <<Call("stop_recording", t.egress, s.err)>>
            IN /\ t.kind \in {"record_stop", "call_end"} /\ t.pc = "backend"
               /\ backend' = s.backend
               /\ db' = UpdateByEgressId(db, t.egress,
                                         [status |-> STOPPED, stopped_at |-> now])
               /\ IF s.err = ErrNone
                  THEN /\ tasks' = (tasks \ {t}) \cup {[t EXCEPT !.pc = "persist"]}
                       /\ last' = TaskOutcome("stop_called", t, None, calls)
                  ELSE /\ tasks' = tasks \ {t}
                       /\ last' = TaskOutcome(t.kind \o "_done", t,
                                              IF t.kind = "record_stop"
                                              THEN RespStopFailed ELSE None,
                                              calls)
               /\ UNCHANGED <<active_calls, active_recordings, dev_mode, now,
                              steps>>

\* RecordingService.stop_recording: the backend stop returns or raises; when it
\* raises, the handler that awaited it ends
TaskBackendStop ==
    \E t \in tasks :
        \E s \in BackendStop(backend, t.egress) :
            LET calls == <<Call("stop_recording", t.egress, s.err)>>
            IN /\ t.kind \in {"record_stop", "call_end"} /\ t.pc = "backend"
               /\ backend' = s.backend
               /\ IF s.err = ErrNone
                  THEN /\ tasks' = (tasks \ {t}) \cup {[t EXCEPT !.pc = "persist"]}
                       /\ last' = TaskOutcome("stop_called", t, None, calls)
                  ELSE /\ tasks' = tasks \ {t}
                       /\ last' = TaskOutcome(t.kind \o "_done", t,
                                              IF t.kind = "record_stop"
                                              THEN RespStopFailed ELSE None,
                                              calls)
               /\ UNCHANGED <<active_calls, active_recordings, db, dev_mode,
                              now, steps>>

\* TaskPersistStop that leaves the room in active_recordings
TaskPersistStopKeepsMapping ==
    \E t \in tasks :
        /\ t.kind \in {"record_stop", "call_end"} /\ t.pc = "persist"
        /\ db' = UpdateByEgressId(db, t.egress,
                                  [status |-> STOPPED, stopped_at |-> now])
        /\ tasks' = tasks \ {t}
        /\ last' = TaskOutcome(t.kind \o "_done", t,
                               IF t.kind = "call_end" THEN None ELSE RespStopped,
                               <<>>)
        /\ UNCHANGED <<active_calls, active_recordings, backend, dev_mode, now,
                       steps>>

\* RecordingService.stop_recording: the row is updated, and the handler that
\* awaited it removes the room from active_recordings and ends.  The command
\* handler deletes the key unguarded, and answers with the KeyError when the
\* key is gone.
TaskPersistStop ==
    \E t \in tasks :
        /\ t.kind \in {"record_stop", "call_end"} /\ t.pc = "persist"
        /\ db' = UpdateByEgressId(db, t.egress,
                                  [status |-> STOPPED, stopped_at |-> now])
        /\ tasks' = tasks \ {t}
        /\ active_recordings' = IF t.room \in DOMAIN active_recordings
                                THEN DictDel(active_recordings, t.room)
                                ELSE active_recordings
        /\ last' = TaskOutcome(t.kind \o "_done", t,
                               IF t.kind = "call_end" THEN None
                               ELSE IF t.room \in DOMAIN active_recordings
                               THEN RespStopped ELSE RespStopFailed,
                               <<>>)
        /\ UNCHANGED <<active_calls, backend, dev_mode, now, steps>>

NextRace ==
    \/ steps < MaxSetup /\ Message
    \/ steps < MaxSetup /\ UnknownEvent
    \/ RecordStopBegin
    \/ CallEndBegin
    \/ TaskBackendStop
    \/ TaskPersistStop

SpecRace == Init /\ [][NextRace]_vars

----------------------------------------------------------------------------
(* /record start and the egress_started webhook, giving way at their awaits *)

\* The exception leaves _handle_record_start: the caller gets no answer
StartFailurePropagates == None

\* CommandHandler._handle_record_start, except branch: the answer to an
\* exception whose text names no missing room
StartFailureAnswer == RespStartFailed

\* A /record start or a webhook request suspended at an await: the room and
\* the LiveKit room name it works for, the egress_id it holds, the await it is at
StartTask(kind, room, name, egress, pc) ==
    [Task(kind, room, egress, pc, FALSE) EXCEPT !.name = name]

\* CommandHandler._handle_record_start up to its await of start_recording.
\* The Matrix client runs one callback at a time, so a room has one /record
\* start in flight.
RecordStartBegin ==
    \E room \in Rooms :
        /\ room \notin DOMAIN active_recordings
        /\ room \in DOMAIN active_calls
        /\ ~InFlight(tasks, "record_start", room)
        /\ tasks' = tasks \cup {StartTask("record_start", room, active_calls[room],
                                          0, "backend")}
        /\ last' = TaskOutcome("record_start_begin", [room |-> room, egress |-> 0],
                               None, <<>>)
        /\ UNCHANGED <<active_calls, active_recordings, db, backend, dev_mode,
                       now, steps>>

\* RecordingService.start_recording: the backend answers with an egress id, or
\* raises and the command handler ends with its answer
TaskBackendStart ==
    \E t \in tasks :
        \E b \in StartBackend(backend, dev_mode, t.name) :
            /\ t.kind = "record_start" /\ t.pc = "backend"
            /\ IF b.err = ErrNone
               THEN /\ tasks' = (tasks \ {t})
                                \cup {[t EXCEPT !.pc = "persist",
                                                !.egress = b.egress_id]}
                    /\ backend' = b.backend
                    /\ last' = TaskOutcome("start_called",
                                           [room |-> t.room, egress |-> b.egress_id],
                                           None, b.calls)
                    /\ UNCHANGED <<active_recordings, db>>
               ELSE \E out \in (IF b.err = ErrNotFound
                                THEN RecordStartMissingRoom(
                                         active_calls, active_recordings, dev_mode,
                                         now, t.room, "@alice", t.name,
                                         StartRaised(db, backend, b.err, b.calls))
                                ELSE {Out("record_start", StartFailureAnswer, 0,
                                          b.calls, active_calls, active_recordings,
                                          db, backend)}) :
                        /\ tasks' = tasks \ {t}
                        /\ backend' = out.backend
                        /\ db' = out.db
                        /\ active_recordings' = out.active_recordings
                        /\ last' = TaskOutcome("record_start_done",
                                               [room |-> t.room,
                                                egress |-> out.egress],
                                               out.resp, out.calls)
            /\ UNCHANGED <<active_calls, dev_mode, now, steps>>

\* RecordingService.start_recording: the row is created, and the command
\* handler tracks the recording and answers; or the create raises and the
\* handler answers with the failure
TaskPersistStart ==
    \E t \in tasks :
        LET p == PersistStarted(db, [egress_id |-> t.egress, backend |-> backend],
                                <<>>, now, t.name, t.room, "@alice")
        IN /\ t.kind = "record_start" /\ t.pc = "persist"
           /\ tasks' = tasks \ {t}
           /\ db' = p.db
           /\ active_recordings' = IF p.err = ErrNone
                                   THEN DictSet(active_recordings, t.room, t.egress)
                                   ELSE active_recordings
           /\ last' = TaskOutcome("record_start_done", t,
                                  IF p.err = ErrNone THEN RespStarted
                                  ELSE StartFailureAnswer, <<>>)
           /\ UNCHANGED <<active_calls, backend, dev_mode, now, steps>>

\* handle_webhook_event, branch egress_started, up to the answer of
\* get_by_egress_id
WebhookStartedBegin ==
    \E payload \in Payloads :
        LET e == payload.egress.egress_id
        IN /\ payload.event = "egress_started"
           /\ payload.egress # NullEgress
           /\ e # 0
           /\ ~\E t \in tasks : t.kind = "webhook" /\ t.egress = e
           /\ tasks' = tasks \cup {IF GetByEgressId(db, e)
                                   THEN StartTask("webhook", None, <<>>, e, "update")
                                   ELSE StartTask("webhook", None,
                                                  payload.egress.room_name, e,
                                                  "create")}
           /\ backend' = IF backend[e] = "free"
                         THEN [backend EXCEPT ![e] = "oob"] ELSE backend
           /\ last' = TaskOutcome("webhook_begin", [room |-> None, egress |-> e],
                                  None, <<>>)
           /\ UNCHANGED <<active_calls, active_recordings, db, dev_mode, now,
                          steps>>

\* handle_webhook_event, branch egress_started: the row is created or set
\* ACTIVE as the lookup decided, and the route answers
WebhookStartedWrite ==
    \E t \in tasks :
        LET egress_info == EgressInfo(t.egress, t.name, FALSE, "starting")
            raised == t.pc = "create" /\ CreateRaises(db, t.egress)
            r == WebhookResponse("egress_started",
                                 [recording |-> ~raised, raised |-> raised])
        IN /\ t.kind = "webhook"
           /\ tasks' = tasks \ {t}
           /\ db' = IF raised THEN db
                    ELSE IF t.pc = "create"
                    THEN Create(db, t.egress,
                                [room_name |-> IF t.name = <<>> THEN Str("unknown")
                                               ELSE t.name,
                                 status |-> ACTIVE])
                    ELSE UpdateByEgressId(db, t.egress, [status |-> ACTIVE])
           /\ last' = [op |-> "webhook", room |-> None, resp |-> r.message,
                       egress |-> t.egress, calls |-> <<>>, http |-> r.http,
                       event |-> "egress_started", info |-> egress_info]
           /\ UNCHANGED <<active_calls, active_recordings, backend, dev_mode,
                          now, steps>>

\* MatrixBot._on_unknown_event for the events that open a call
CallStartEvent ==
    \E room \in Rooms :
        \E ev \in {x \in Events : /\ x.event_type \in CALL_START_EVENTS
                                  /\ ~IsSelf(x.sender)
                                  /\ x.age = NoTime} :
            \E out \in HandleUnknownEvent(active_calls, active_recordings, db,
                                          backend, dev_mode, now, room, ev.sender,
                                          ev.event_type, ev.age, ev.content,
                                          ev.event_id) :
                /\ active_calls' = out.active_calls
                /\ last' = TaskOutcome(out.op, [room |-> room, egress |-> out.egress],
                                       out.resp, out.calls)
                /\ UNCHANGED <<active_recordings, db, backend, dev_mode, now,
                               steps, tasks>>

NextStartRace ==
    \/ CallStartEvent
    \/ RecordStartBegin
    \/ TaskBackendStart
    \/ TaskPersistStart
    \/ WebhookStartedBegin
    \/ WebhookStartedWrite

SpecStartRace == Init /\ [][NextStartRace]_vars

\* The commands /record start and /record stop beside the webhook
NextCommandRace ==
    \/ NextStartRace
    \/ RecordStopBegin
    \/ TaskBackendStop
    \/ TaskPersistStop

SpecCommandRace == Init /\ [][NextCommandRace]_vars

----------------------------------------------------------------------------
(* Two /record start commands for one room, giving way at their awaits *)

\* CommandHandler._handle_record_start up to its await of start_recording,
\* entered while another /record start for the room is suspended: the room is
\* not yet in active_recordings, so the check for a recording in progress
\* passes again
RecordStartBeginSecond ==
    \E room \in Rooms :
        /\ room \notin DOMAIN active_recordings
        /\ room \in DOMAIN active_calls
        /\ \E t \in tasks : t.kind = "record_start" /\ t.room = room /\ ~t.raced
        /\ ~\E t \in tasks : t.kind = "record_start" /\ t.room = room /\ t.raced
        /\ tasks' = tasks \cup {[StartTask("record_start", room,
                                           active_calls[room], 0, "backend")
                                 EXCEPT !.raced = TRUE]}
        /\ last' = TaskOutcome("record_start_begin", [room |-> room, egress |-> 0],
                               None, <<>>)
        /\ UNCHANGED <<active_calls, active_recordings, db, backend, dev_mode,
                       now, steps>>

\* CommandHandler._handle_record_start for a room with a tracked recording
RecordStartRefused ==
    \E room \in Rooms :
        \E out \in HandleRecordStart(active_calls, active_recordings, db, backend,
                                     dev_mode, now, room, "@alice") :
            /\ room \in DOMAIN active_recordings
            /\ last' = TaskOutcome("record_start_refused",
                                   [room |-> room, egress |-> out.egress],
                                   out.resp, out.calls)
            /\ UNCHANGED <<active_calls, active_recordings, db, backend, dev_mode,
                           now, steps, tasks>>

NextTwoStarts ==
    \/ CallStartEvent
    \/ RecordStartBegin
    \/ RecordStartBeginSecond
    \/ RecordStartRefused
    \/ TaskBackendStart
    \/ TaskPersistStart

SpecTwoStarts == Init /\ [][NextTwoStarts]_vars

----------------------------------------------------------------------------
(* /record stop repeated after a failed auto-stop *)

\* CommandHandler._handle_record_stop for a room without a tracked recording
RecordStopRefused ==
    \E room \in Rooms :
        \E out \in HandleRecordStop(active_calls, active_recordings, db, backend,
                                    now, room, "@alice") :
            /\ room \notin DOMAIN active_recordings
            /\ last' = TaskOutcome("record_stop_refused",
                                   [room |-> room, egress |-> out.egress],
                                   out.resp, out.calls)
            /\ UNCHANGED <<active_calls, active_recordings, db, backend, dev_mode,
                           now, steps, tasks>>

\* After a bounded number of events handled whole, hangups and /record stop
\* commands arrive without bound and give way at their awaits
NextRetry ==
    \/ NextRace
    \/ RecordStopRefused

\* The event loop resumes a suspended handler once the call it awaits has
\* returned or raised
SpecRetry ==
    /\ Init
    /\ [][NextRetry]_vars
    /\ \A room \in Rooms :
         /\ WF_vars(TaskBackendStop /\ last'.room = room)
         /\ WF_vars(TaskPersistStop /\ last'.room = room)

----------------------------------------------------------------------------
(* egress_ended: the output fields read off the payload *)

\* dict.get(k): None when the key is missing
DictGet(d, k) == IF k \in DOMAIN d THEN d[k] ELSE None

\* Python's `a or b`: b when a is None or empty
PyOr(a, b) == IF a \in {None, ""} THEN b ELSE a

\* egress_info.get("s3", {}) or file_info.get("s3", {})
EndedS3Info(s3, file_s3) == IF DOMAIN s3 # {} THEN s3 ELSE file_s3

\* handle_webhook_event, branch egress_ended: bucket, object_key, file_path,
\* file_url and file_size of update_data
EndedOutputFields(egress_info) ==
    LET file_info  == egress_info.file
        s3_info    == EndedS3Info(egress_info.s3, egress_info.file_s3)
        bucket     == PyOr(DictGet(s3_info, "bucket"), DictGet(file_info, "bucket"))
        object_key == PyOr(PyOr(PyOr(DictGet(s3_info, "key"),
                                     DictGet(file_info, "key")),
                                DictGet(file_info, "filename")),
                           DictGet(file_info, "path"))
    IN [bucket     |-> bucket,
        object_key |-> object_key,
        file_path  |-> PyOr(PyOr(object_key, DictGet(file_info, "filename")),
                            DictGet(file_info, "path")),
        file_url   |-> PyOr(DictGet(file_info, "url"), DictGet(s3_info, "url")),
        file_size  |-> PyOr(DictGet(file_info, "size"), DictGet(s3_info, "size"))]

\* The s3 objects and the file objects of the payloads delivered: every value
\* names the object it stands in
S3Infos == {[k \in S |-> "s3"] : S \in SUBSET {"bucket", "key", "url", "size"}}

FileInfos ==
    {[k \in S |-> "file"] : S \in SUBSET {"bucket", "key", "url", "size"}}
    \cup {[k \in S |-> "file"] : S \in {{"filename"}, {"filename", "path"}}}

FileS3Infos == {EmptyDict, [k \in {"bucket", "key"} |-> "file.s3"]}

\* POST /webhook/livekit/egress with an egress_ended payload that carries an
\* s3 object and a file object
WebhookEnded ==
    \E e \in EgressIds, s3 \in S3Infos, file_info \in FileInfos :
        \E file_s3 \in FileS3Infos :
            LET egress_info == [egress_id |-> e, room_name |-> <<>>,
                                error |-> FALSE, status |-> "complete",
                                s3 |-> s3, file |-> file_info,
                                file_s3 |-> file_s3]
                fields == EndedOutputFields(egress_info)
                r == WebhookEgressEnded(db, now, e, egress_info)
                resp == WebhookResponse("egress_ended", r)
            IN /\ db' = r.db
               /\ backend' = IF backend[e] = "free"
                             THEN [backend EXCEPT ![e] = "oob"] ELSE backend
               /\ last' = [op |-> "webhook", room |-> None,
                           resp |-> resp.message, egress |-> e, calls |-> <<>>,
                           http |-> resp.http, event |-> "egress_ended",
                           info |-> egress_info]
               /\ UNCHANGED <<active_calls, active_recordings, dev_mode, now,
                              steps, tasks>>

SpecEnded == Init /\ [][WebhookEnded]_vars

----------------------------------------------------------------------------
(* Properties *)

\* Some backend call of the log is a call of fn that ended with err
Called(calls, fn) == \E i \in DOMAIN calls : calls[i][1] = fn
Succeeded(calls, fn) ==
    \E i \in DOMAIN calls : calls[i][1] = fn /\ calls[i][3] = ErrNone
Failed(calls, fn) ==
    \E i \in DOMAIN calls : calls[i][1] = fn /\ calls[i][3] # ErrNone

\* The handler that just ran is op, for room r
Ran(op, r) == last'.op = op /\ last'.room = r

\* Egress jobs the bot started for room r that are still running
RunningFor(r) ==
    {e \in DOMAIN db : db[e].matrix_room_id = r /\ backend[e] = "running"}

(* C1: a room never holds two calls or two recordings at once: while a call    *)
(* (a recording) is registered for a room no other one takes its place, and   *)
(* at most one egress job started for the room is running, the tracked one.   *)
C1_OneSessionPerRoom ==
    [][\A r \in Rooms :
         /\ (r \in DOMAIN active_calls /\ r \in DOMAIN active_calls')
               => active_calls'[r] = active_calls[r]
         /\ (r \in DOMAIN active_recordings /\ r \in DOMAIN active_recordings')
               => active_recordings'[r] = active_recordings[r]
         /\ Cardinality(RunningFor(r)') <= 1
         /\ \A e \in RunningFor(r)' :
               r \in DOMAIN active_recordings' /\ active_recordings'[r] = e]_vars

C1_Witness ==
    \E r \in Rooms :
        /\ r \in DOMAIN active_calls
        /\ r \in DOMAIN active_recordings
        /\ RunningFor(r) = {active_recordings[r]}
        /\ last.op = "call_start" /\ last.room = r

\* Status changes of a row the state machine allows
AllowedTransitions ==
    {<<ACTIVE, PROCESSING>>, <<PROCESSING, COMPLETED>>, <<ACTIVE, STOPPED>>,
     <<ACTIVE, FAILED>>, <<PROCESSING, FAILED>>}

(* C2: every change of the status of a persisted recording is a transition of *)
(* the state machine ACTIVE->PROCESSING, PROCESSING->COMPLETED,               *)
(* ACTIVE->STOPPED, non-terminal->FAILED; a terminal status never changes.    *)
C2_StatusStateMachine ==
    [][\A e \in DOMAIN db :
         (e \in DOMAIN db' /\ db'[e].status # db[e].status)
            => <<db[e].status, db'[e].status>> \in AllowedTransitions]_vars

(* C3: a webhook event for an egress whose record is in a terminal status is  *)
(* accepted without error and leaves the status of the record unchanged.      *)
C3_TerminalWebhookIsNoOp ==
    [][\A e \in DOMAIN db :
         (last'.op = "webhook" /\ last'.egress = e /\ db[e].status \in Terminal)
            => last'.http = 200 /\ db'[e].status = db[e].status]_vars

C5_StopMarksStopped ==
    [][\A r \in Rooms :
         (/\ Ran("record_stop", r)
          /\ r \in DOMAIN active_recordings
          /\ Succeeded(last'.calls, "stop_recording"))
         => LET e == active_recordings[r]
            IN /\ e \in DOMAIN db'
               /\ db'[e].status = STOPPED
               /\ db'[e].stopped_at # NoTime
               /\ db'[e].stopped_by # None
               /\ r \notin DOMAIN active_recordings']_vars

(* C6: if the backend stop call fails during /record stop, the command        *)
(* answers with a failure, the mapping stays, the record is not modified, and *)
(* a later /record stop for the room calls the backend stop again.            *)
C6_FailedStopChangesNothing ==
    [][\A r \in Rooms :
         (/\ Ran("record_stop", r)
          /\ r \in DOMAIN active_recordings
          /\ Failed(last'.calls, "stop_recording"))
         => /\ last'.resp = RespStopFailed
            /\ active_recordings' = active_recordings
            /\ db' = db
            /\ backend' = backend
            /\ \A out \in HandleRecordStop(active_calls', active_recordings', db',
                                           backend', now', r, "@alice") :
                  /\ Len(out.calls) = 1
                  /\ out.calls[1][1] = "stop_recording"
                  /\ out.calls[1][2] = active_recordings[r]]_vars

C6_Witness ==
    /\ last.op = "record_stop"
    /\ last.resp = RespStopFailed
    /\ Failed(last.calls, "stop_recording")
    /\ last.room \in DOMAIN active_recordings
    /\ active_recordings[last.room] = last.egress
    /\ db[last.egress].status = ACTIVE
    /\ db[last.egress].stopped_at = NoTime

(* C7, as stated: /record start for a room without a registered call always   *)
(* answers NoActiveCall, calls no backend start and creates no record.        *)
C7_AlwaysNoActiveCall ==
    [][\A r \in Rooms :
         (Ran("record_start", r) /\ r \notin DOMAIN active_calls)
         => /\ last'.resp = RespNoActiveCall
            /\ last'.calls = <<>>
            /\ db' = db]_vars

(* C7, amended: /record start for a room without a registered call calls no   *)
(* backend start and creates no record; it answers NoActiveCall, unless a     *)
(* recording is still tracked for the room: then it answers AlreadyRecording. *)
C7_NoCallNoStart ==
    [][\A r \in Rooms :
         (Ran("record_start", r) /\ r \notin DOMAIN active_calls)
         => /\ last'.resp = IF r \in DOMAIN active_recordings
                            THEN RespAlreadyRecording ELSE RespNoActiveCall
            /\ last'.calls = <<>>
            /\ db' = db
            /\ backend' = backend
            /\ active_recordings' = active_recordings]_vars

C7_Witness ==
    /\ last.op = "record_start"
    /\ last.resp = RespNoActiveCall
    /\ last.room \notin DOMAIN active_calls
    /\ last.calls = <<>>

\* Rows of the recordings started from room r
RowsOf(r) == {e \in DOMAIN db : db[e].matrix_room_id = r}

(* C8: /record start for a room that already has a tracked recording answers  *)
(* AlreadyRecording, calls no backend start, leaves active_recordings alone   *)
(* and creates no further record.                                             *)
C8_SecondStartRefused ==
    [][\A r \in Rooms :
         (Ran("record_start", r) /\ r \in DOMAIN active_recordings)
         => /\ last'.resp = RespAlreadyRecording
            /\ last'.egress = active_recordings[r]
            /\ last'.calls = <<>>
            /\ active_recordings' = active_recordings
            /\ db' = db
            /\ backend' = backend]_vars

C8_Witness ==
    /\ last.op = "record_start"
    /\ last.resp = RespAlreadyRecording
    /\ last.room \in DOMAIN active_calls
    /\ Cardinality(RowsOf(last.room)) = 1
    /\ RowsOf(last.room) = {active_recordings[last.room]}

(* C9: /record stop in a room with no entry in active_recordings answers      *)
(* NoSuchRecording and changes nothing: no backend stop, and active_calls,    *)
(* active_recordings and every record stay as they were.                      *)
C9_StopWithoutRecording ==
    [][\A r \in Rooms :
         (Ran("record_stop", r) /\ r \notin DOMAIN active_recordings)
         => /\ last'.resp = RespNoSuchRecording
            /\ last'.calls = <<>>
            /\ active_calls' = active_calls
            /\ active_recordings' = active_recordings
            /\ db' = db
            /\ backend' = backend]_vars

C9_Witness ==
    /\ last.op = "record_stop"
    /\ last.resp = RespNoSuchRecording
    /\ last.room \notin DOMAIN active_recordings
    /\ DOMAIN db # {}

(* C10: with a call registered in room R and a recording started for it, a    *)
(* hangup or reject event whose backend stop succeeds leaves R without a      *)
(* registered call, without a tracked recording, and the record STOPPED.      *)
C10_HangupStopsRecording ==
    [][\A r \in Rooms :
         (/\ Ran("call_end", r)
          /\ r \in DOMAIN active_calls
          /\ r \in DOMAIN active_recordings
          /\ Succeeded(last'.calls, "stop_recording"))
         => LET e == active_recordings[r]
            IN /\ r \notin DOMAIN active_calls'
               /\ r \notin DOMAIN active_recordings'
               /\ e \in DOMAIN db'
               /\ db'[e].status = STOPPED
               /\ backend'[e] = "stopped"]_vars

C10_Witness ==
    /\ last.op = "call_end"
    /\ Succeeded(last.calls, "stop_recording")
    /\ last.room \notin DOMAIN active_calls
    /\ last.room \notin DOMAIN active_recordings
    /\ last.egress \in DOMAIN db
    /\ db[last.egress].status = STOPPED
    /\ db[last.egress].matrix_room_id = last.room

(* C11: a hangup/reject for a room with a registered call always removes the *)
(* call and ends without an error response; when the automatic stop fails at  *)
(* the backend the recording stays tracked and its record is left as it was,  *)
(* not STOPPED.                                                               *)
C11_HangupAlwaysUnregisters ==
    [][\A r \in Rooms :
         (Ran("call_end", r) /\ r \in DOMAIN active_calls)
         => /\ r \notin DOMAIN active_calls'
            /\ last'.resp = None
            /\ Failed(last'.calls, "stop_recording")
               => /\ r \in DOMAIN active_recordings
                  /\ active_recordings' = active_recordings
                  /\ db' = db
                  /\ \A e \in DOMAIN db' :
                       e = active_recordings'[r] => db'[e].status # STOPPED]_vars

C11_Witness ==
    /\ last.op = "call_end"
    /\ Failed(last.calls, "stop_recording")
    /\ last.room \notin DOMAIN active_calls
    /\ last.room \in DOMAIN active_recordings
    /\ active_recordings[last.room] = last.egress
    /\ db[last.egress].status = ACTIVE

(* C12: a call-start event for a room with a registered call changes nothing: *)
(* the call_id, the tracked recordings, the table and the backend stay as     *)
(* they were and no backend call is made; and a call_id registered for a room *)
(* stays the same for as long as the room has a registered call.              *)
C12_CallStartIdempotent ==
    [][\A r \in Rooms :
         /\ (Ran("call_start", r) /\ r \in DOMAIN active_calls)
            => /\ active_calls' = active_calls
               /\ active_recordings' = active_recordings
               /\ db' = db
               /\ backend' = backend
               /\ last'.calls = <<>>
         /\ (r \in DOMAIN active_calls /\ r \in DOMAIN active_calls')
            => active_calls'[r] = active_calls[r]]_vars

\* In dev_mode a first call-start asks the backend for a room, a repeated one
\* does not
C12_Witness ==
    /\ dev_mode
    /\ last.op = "call_start"
    /\ last.calls = <<>>
    /\ last.room \in DOMAIN active_calls
    /\ active_calls[last.room] = Md5Hex16(last.room, "e1")

\* How many backend calls of the log are calls of fn
Count(calls, fn) == Cardinality({i \in DOMAIN calls : calls[i][1] = fn})

C15_FailedStartLeavesNothing ==
    [][\A r \in Rooms :
         (/\ Ran("record_start", r)
          /\ last'.resp \in {RespStartFailed, RespRoomDoesNotExist,
                             RespCreatedButFailed})
         => /\ active_calls' = active_calls
            /\ active_recordings' = active_recordings
            /\ db' = db]_vars

C15_Witness ==
    /\ last.op = "record_start"
    /\ last.resp = RespRoomDoesNotExist
    /\ Count(last.calls, "start_recording") = 2
    /\ Failed(last.calls, "create_room") = FALSE
    /\ last.room \in DOMAIN active_calls
    /\ last.room \notin DOMAIN active_recordings

\* The webhook that just ran carried event and an egress object naming e
RanWebhook(event, e) ==
    /\ last'.op = "webhook"
    /\ last'.event = event
    /\ last'.info # NullEgress
    /\ last'.info.egress_id = e

(* C16: an egress_ended webhook applied a second time, with the payload of    *)
(* the application just before it, to an existing record (COMPLETED by the    *)
(* first, error-free application) is accepted without an HTTP error and       *)
(* leaves the record COMPLETED with its completed_at unchanged.               *)
C16_EgressEndedIdempotent ==
    [][\A e \in DOMAIN db :
         (/\ last.op = "webhook" /\ last.event = "egress_ended"
          /\ RanWebhook("egress_ended", e)
          /\ last'.info = last.info
          /\ ~last.info.error /\ last.info.status = "complete")
         => /\ last'.http = 200
            /\ db[e].status = COMPLETED
            /\ db'[e].status = db[e].status
            /\ db'[e].completed_at = db[e].completed_at]_vars

\* The local status the specification maps a backend sub-status to
MappedStatus(sub_status, current) ==
    CASE sub_status = "starting" -> ACTIVE
      [] sub_status = "active"   -> PROCESSING
      [] sub_status = "aborted"  -> FAILED
      [] OTHER                   -> current

(* C17: an egress_updated webhook sets the status of the existing record from *)
(* the sub-status the backend reports: starting gives ACTIVE, active gives    *)
(* PROCESSING, aborted gives FAILED, anything else leaves the status alone.   *)
C17_EgressUpdatedMapsStatus ==
    [][\A e \in DOMAIN db :
         (RanWebhook("egress_updated", e) /\ db[e].status \notin Terminal)
         => db'[e].status = MappedStatus(last'.info.status, db[e].status)]_vars

(* C18: an egress_ended webhook for a record that is not yet final sets its   *)
(* status to FAILED when the backend reports an abort or an error field, to   *)
(* COMPLETED otherwise, and sets completed_at.                                *)
C18_EgressEndedFinalStatus ==
    [][\A e \in DOMAIN db :
         (RanWebhook("egress_ended", e) /\ db[e].status \notin Terminal)
         => /\ db'[e].status = IF last'.info.status = "aborted" \/ last'.info.error
                               THEN FAILED ELSE COMPLETED
            /\ db'[e].completed_at = now]_vars

(* C19: an egress_started webhook naming egress e creates a record in ACTIVE  *)
(* status when there is none for e, with room name "unknown" when the payload *)
(* has none; otherwise it sets the status of the record of e to ACTIVE and    *)
(* creates no record.  No other record changes.                               *)
C19_EgressStartedCreatesOrActivates ==
    [][\A e \in EgressIds :
         RanWebhook("egress_started", e)
         => /\ DOMAIN db' = DOMAIN db \cup {e}
            /\ \A x \in DOMAIN db \ {e} : db'[x] = db[x]
            /\ db'[e].status = ACTIVE
            /\ IF e \in DOMAIN db
               THEN db'[e] = [db[e] EXCEPT !.status = ACTIVE]
               ELSE db'[e].room_name = IF last'.info.room_name = <<>>
                                       THEN Str("unknown")
                                       ELSE last'.info.room_name]_vars

\* A stopped record was set back to ACTIVE, and the last webhook created a
\* record named "unknown" for another egress
C19_Witness ==
    /\ last.op = "webhook" /\ last.event = "egress_started"
    /\ last.info # NullEgress
    /\ last.info.egress_id \in DOMAIN db
    /\ db[last.info.egress_id].room_name = Str("unknown")
    /\ \E x \in DOMAIN db : /\ x # last.info.egress_id
                            /\ db[x].status = ACTIVE
                            /\ db[x].stopped_at # NoTime

(* C20: a webhook whose payload has no egress_id, whatever its event type,    *)
(* changes neither the table nor the registries and is not answered with an   *)
(* HTTP error.                                                                *)
C20_NoEgressIdNoMutation ==
    [][(/\ last'.op = "webhook"
        /\ \/ last'.info = NullEgress
           \/ last'.info.egress_id = 0)
       => /\ db' = db
          /\ active_calls' = active_calls
          /\ active_recordings' = active_recordings
          /\ last'.http = 200]_vars

C21_WebhookAnswers200 ==
    [][(last'.op = "webhook" /\ last'.info # NullEgress)
       => /\ last'.http = 200
          /\ last'.event \notin {"egress_started", "egress_updated", "egress_ended"}
             => db' = db]_vars

\* Outcome out of a handler run in the current state changed nothing, called
\* no backend and sent no response
Untouched(out) ==
    /\ out.active_calls = active_calls
    /\ out.active_recordings = active_recordings
    /\ out.db = db
    /\ out.backend = backend
    /\ out.calls = <<>>
    /\ out.resp = None

(* C22: in every reachable state, a chat message older than 30 seconds and a  *)
(* call-signalling event older than 120 seconds are dropped: whatever they    *)
(* carry, handling them changes no registry, record or egress job, calls no   *)
(* backend and sends no response.                                             *)
C22_StaleEventsDropped ==
    \A room \in Rooms, age \in Ages \ {NoTime} :
        /\ age > 30
           => \A body \in Bodies :
                \A out \in HandleMessage(active_calls, active_recordings, db,
                                         backend, dev_mode, now, room, "@alice",
                                         age, body) : Untouched(out)
        /\ age > 120
           => \A ty \in EventTypes, content \in {EmptyDict, WithCallId} :
                \A out \in HandleUnknownEvent(active_calls, active_recordings, db,
                                              backend, dev_mode, now, room,
                                              "@alice", ty, age, content, "e1") :
                    Untouched(out)

\* A stale call event was dropped in a room with a call and a recording
C22_Witness ==
    /\ last.op = "event_stale"
    /\ last.room \in DOMAIN active_calls
    /\ last.room \in DOMAIN active_recordings

(* C23: in every reachable state, an event authored by the bot's own user id  *)
(* is ignored: a chat message from the bot runs no command and gets no        *)
(* response, and a call event from the bot, call-start, hangup and reject     *)
(* included, changes neither registry and calls no backend.                   *)
C23_OwnEventsIgnored ==
    \A room \in Rooms, age \in {NoTime, MessageMaxAge} :
        /\ \A body \in Bodies :
             \A out \in HandleMessage(active_calls, active_recordings, db,
                                      backend, dev_mode, now, room, BotUserId,
                                      age, body) : Untouched(out)
        /\ \A ty \in EventTypes :
             \A out \in HandleUnknownEvent(active_calls, active_recordings, db,
                                           backend, dev_mode, now, room,
                                           BotUserId, ty, age, WithCallId, "e1") :
                 Untouched(out)

\* A call event of the bot was ignored in a room with a call and a recording
C23_Witness ==
    /\ last.op = "event_self"
    /\ last.room \in DOMAIN active_calls
    /\ last.room \in DOMAIN active_recordings

(* C24: in every reachable state, after any sequence of commands, call events *)
(* and webhook events, each chat room has at most one persisted record whose  *)
(* status is ACTIVE or PROCESSING.                                            *)
C24_OneLiveRecordPerRoom ==
    \A room \in Rooms :
        Cardinality({e \in DOMAIN db :
                       /\ db[e].matrix_room_id = room
                       /\ db[e].status \in {ACTIVE, PROCESSING}}) <= 1

(* C25: under every interleaving of the /record start path and the            *)
(* egress_started webhook for the same egress_id, a record once persisted     *)
(* stays the one record of its egress_id: no later create of either path      *)
(* stores another record for it (the record's room_name, matrix_room_id and   *)
(* started_by stay as created, and no record disappears).                     *)
C25_OneRecordPerEgress ==
    [][\A e \in DOMAIN db :
         /\ e \in DOMAIN db'
         /\ db'[e].room_name = db[e].room_name
         /\ db'[e].matrix_room_id = db[e].matrix_room_id
         /\ db'[e].started_by = db[e].started_by]_vars

\* The webhook created the record while /record start awaited the backend, and
\* the create of the start path was refused
C25_Witness ==
    /\ last.op = "record_start_done"
    /\ last.resp = RespStartFailed
    /\ last.egress \in DOMAIN db
    /\ db[last.egress].matrix_room_id = None
    /\ backend[last.egress] = "running"

(* C26: in every reachable state, an event that is neither of a call-start    *)
(* type nor a hangup or reject (m.call.sdp, m.call.candidates, another type   *)
(* that merely contains 'call', or a type that is not call-related), whatever *)
(* its content, leaves active_calls and active_recordings as they are, calls  *)
(* no backend and changes no record: only call-start types register a call    *)
(* and only hangup/reject tear one down.                                      *)
C26_OtherEventsChangeNothing ==
    \A room \in Rooms :
        \A ty \in {"m.call.sdp", "m.call.candidates", "m.call.invite",
                    "m.room.topic"} :
            \A content \in {EmptyDict, WithCallId} :
                \A out \in HandleUnknownEvent(active_calls, active_recordings, db,
                                              backend, dev_mode, now, room,
                                              "@alice", ty, NoTime, content,
                                              "e1") :
                    Untouched(out)

\* An m.call.sdp or the like was handled in a room with a call and a recording
C26_Witness ==
    /\ last.op = "call_other"
    /\ last.room \in DOMAIN active_calls
    /\ last.room \in DOMAIN active_recordings
    /\ last.calls = <<>>

(* C27: the command path never raises to its caller: every /record start and  *)
(* /record stop that ends, ends with a response string, and when a backend    *)
(* call failed or the record could not be persisted the string is the         *)
(* matching failure message.                                                  *)
C27_FailuresBecomeResponses ==
    [][/\ last'.op = "record_start_done"
          => /\ last'.resp \in {RespStarted, RespStartedCreated, RespStartFailed,
                                RespRoomDoesNotExist, RespCreatedButFailed}
             /\ last'.calls # <<>>
                => last'.resp \in {RespStartFailed, RespRoomDoesNotExist,
                                   RespCreatedButFailed}
             /\ (last'.calls = <<>> /\ db' = db) => last'.resp = RespStartFailed
       /\ last'.op = "record_stop_done"
          => /\ last'.resp \in {RespStopped, RespStopFailed}
             /\ Failed(last'.calls, "stop_recording")
                => last'.resp = RespStopFailed]_vars

\* The record of a started egress job could not be persisted, and /record
\* start answered with the failure
C27_Witness ==
    /\ last.op = "record_start_done"
    /\ last.resp = RespStartFailed
    /\ last.calls = <<>>
    /\ last.room \notin DOMAIN active_recordings
    /\ last.egress \in DOMAIN db

(* C28: in every reachable state, a command with an unrecognized verb or an   *)
(* unrecognized /record action is answered with an error string, a /record    *)
(* without action and an empty command are answered with the usage hint, and   *)
(* only '/record start' and '/record stop' reach the start and stop            *)
(* operations.                                                                 *)
C28_UnknownCommandsAnswered ==
    \A room \in Rooms :
        \A parts \in {b \in Bodies : b = <<>> \/ StartsWithSlash(b)} :
            \A out \in HandleCommand(active_calls, active_recordings, db, backend,
                                     dev_mode, now, parts, room, "@alice") :
                /\ (parts = <<>> \/ parts = <<"/record">>) => out.resp = RespUsage
                /\ (parts # <<>> /\ Lower(parts[1]) # "/record")
                      => out.resp # None
                /\ (Len(parts) >= 2 /\ Lower(parts[1]) = "/record"
                      /\ Lower(parts[2]) \notin {"start", "stop"})
                      => out.resp = RespUnknownAction
                /\ out.op = "record_start"
                      => /\ Len(parts) >= 2
                         /\ Lower(parts[1]) = "/record"
                         /\ Lower(parts[2]) = "start"
                /\ out.op = "record_stop"
                      => /\ Len(parts) >= 2
                         /\ Lower(parts[1]) = "/record"
                         /\ Lower(parts[2]) = "stop"

(* C29: in every reachable state, when a call is registered for a room and    *)
(* an event of that room carries no call identifier under any alias, the      *)
(* extractor returns the call_id of the registered call.                      *)
C29_ExtractorReusesRegisteredCall ==
    \A room \in DOMAIN active_calls :
        \A ty \in {t \in EventTypes : IsCallEvent(t)}, event_id \in EventIds :
            ExtractCallId(EmptyDict, room, event_id, ty) = active_calls[room]

(* C30: extraction always yields a non-empty identifier, the same one for the *)
(* same room, event id, type and content: the identifier of the content       *)
(* without the blanks around it when it has one (" abc123 " gives "abc123"),  *)
(* else the digest of room id and event id; and every registered call_id is   *)
(* such an identifier.                                                        *)
C30_ExtractionTotal ==
    /\ \A room \in Rooms, event_id \in EventIds :
         \A ty \in {"m.call.negotiate", "m.call.hangup", "m.call.sdp"} :
             /\ \A content \in Contents :
                  LET call_id == ExtractCallId(content, room, event_id, ty)
                  IN /\ call_id # <<>>
                     /\ Head(call_id) # " "
                     /\ call_id[Len(call_id)] # " "
             /\ ExtractCallId([call_id |-> <<" ", "a", "b", "c", "1", "2", "3", " ">>],
                              room, event_id, ty)
                  = <<"a", "b", "c", "1", "2", "3">>
             /\ event_id # None
                  => ExtractCallId(EmptyDict, room, event_id, ty)
                       = Md5Hex16(room, event_id)
    /\ \A room \in DOMAIN active_calls :
         /\ active_calls[room] # <<>>
         /\ \E ev \in Events :
              active_calls[room] = ExtractCallId(ev.content, room, ev.event_id,
                                                 ev.event_type)

\* A call was registered under the identifier its event carried between blanks
C30_Witness ==
    /\ last.op = "call_start"
    /\ last.room \in DOMAIN active_calls
    /\ active_calls[last.room] = <<"a">>

(* C31: in every execution of /record start and /record stop the table is     *)
(* written only after the backend call has returned successfully: the step    *)
(* that awaits the backend writes nothing, the write is the step of a command *)
(* whose egress job the backend has started (stopped), and a command that     *)
(* ends with a failed backend call leaves every record as it was.             *)
C31_BackendBeforeWrite ==
    [][/\ last'.op \in {"start_called", "stop_called", "record_start_begin",
                        "record_stop_begin"}
          => db' = db
       /\ (last'.op \in {"record_start_done", "record_stop_done"} /\ db' # db)
          => \E t \in tasks \ tasks' :
                /\ t.pc = "persist"
                /\ t.egress = last'.egress
                /\ t.kind = "record_start"
                   => /\ backend[t.egress] = "running"
                      /\ DOMAIN db' = DOMAIN db \cup {t.egress}
                /\ t.kind = "record_stop"
                   => /\ backend[t.egress] = "stopped"
                      /\ db'[t.egress].status = STOPPED
       /\ (/\ last'.op \in {"record_start_done", "record_stop_done"}
           /\ last'.calls # <<>>
           /\ last'.calls[Len(last'.calls)][3] # ErrNone)
          => db' = db]_vars

\* A /record stop whose backend stop had succeeded marked the record STOPPED
C31_Witness ==
    /\ last.op = "record_stop_done"
    /\ last.resp = RespStopped
    /\ last.egress \in DOMAIN db
    /\ db[last.egress].status = STOPPED
    /\ backend[last.egress] = "stopped"

\* The file-info value of an output field: what the field falls back to
FileFallback(file_info, field) ==
    IF field = "object_key"
    THEN PyOr(PyOr(DictGet(file_info, "key"), DictGet(file_info, "filename")),
              DictGet(file_info, "path"))
    ELSE DictGet(file_info, CASE field = "bucket"    -> "bucket"
                              [] field = "file_url"  -> "url"
                              [] field = "file_size" -> "size")

(* C32: in every reachable state, the output fields read off an egress_ended  *)
(* payload that carries an s3 object and file-info fields (bucket, object     *)
(* key, URL, size) each take the s3 value when the s3 object has one, and the *)
(* file-info value only when it has none.                                     *)
C32_S3Authoritative ==
    (last.op = "webhook" /\ last.event = "egress_ended")
    => LET s3_info == EndedS3Info(last.info.s3, last.info.file_s3)
           fields  == EndedOutputFields(last.info)
       IN \A p \in {<<"bucket", "bucket">>, <<"object_key", "key">>,
                    <<"file_url", "url">>, <<"file_size", "size">>} :
              fields[p[1]] = IF p[2] \in DOMAIN s3_info
                             THEN s3_info[p[2]]
                             ELSE FileFallback(last.info.file, p[1])

(* C33: when the egress_started webhook for a newly started egress is handled *)
(* after the backend start has returned and before /record start creates its *)
(* record, /record start still succeeds and ends with the room tracked in     *)
(* active_recordings under that egress_id.                                    *)
C33_StartSurvivesEarlyWebhook ==
    [][\A t \in tasks \ tasks' :
         (/\ t.kind = "record_start"
          /\ t.pc = "persist"
          /\ t.egress \in DOMAIN db)
         => /\ last'.op = "record_start_done"
            /\ last'.resp = RespStarted
            /\ t.room \in DOMAIN active_recordings'
            /\ active_recordings'[t.room] = t.egress]_vars

(* C34: in every reachable state, every egress job the backend runs for a      *)
(* /record start is tracked in active_recordings for its room once the        *)
(* command has completed, also when persisting the record failed: no running  *)
(* job is left that neither /record stop nor the hangup auto-stop can reach.  *)
C34_RunningEgressIsTracked ==
    \A e \in EgressIds :
        backend[e] = "running"
        => \/ \E room \in DOMAIN active_recordings : active_recordings[room] = e
           \/ \E t \in tasks : t.kind = "record_start" /\ t.egress = e

(* C35: a hangup or reject event for a room without a registered call changes *)
(* nothing, also when a recording is still tracked for the room: no backend   *)
(* stop is called, active_recordings, the records and the egress jobs stay as *)
(* they were, and nothing is answered.                                        *)
C35_HangupWithoutCallChangesNothing ==
    [][\A r \in Rooms :
         (Ran("call_end", r) /\ r \notin DOMAIN active_calls)
         => /\ last'.calls = <<>>
            /\ last'.resp = None
            /\ active_calls' = active_calls
            /\ active_recordings' = active_recordings
            /\ db' = db
            /\ backend' = backend]_vars

\* A hangup arrived for a room that had no call any more but still a tracked,
\* running recording
C35_Witness ==
    /\ last.op = "call_end"
    /\ last.calls = <<>>
    /\ last.room \notin DOMAIN active_calls
    /\ last.room \in DOMAIN active_recordings
    /\ backend[active_recordings[last.room]] = "running"

C37_TrackedEgressHasRecord ==
    [][/\ \A r \in DOMAIN active_recordings' :
            /\ active_recordings'[r] \in DOMAIN db'
            /\ db'[active_recordings'[r]].matrix_room_id = r
       /\ DOMAIN db \subseteq DOMAIN db']_vars

\* A /record start completed and left its room tracked under the egress_id of
\* the record it created
C37_Witness ==
    /\ last.op = "record_start_done"
    /\ last.resp = RespStarted
    /\ last.room \in DOMAIN active_recordings
    /\ active_recordings[last.room] = last.egress
    /\ last.egress \in DOMAIN db
    /\ db[last.egress].matrix_room_id = last.room

(* C38: a recording left tracked after a failed auto-stop can still be        *)
(* stopped.  In a room without a registered call, a /record stop whose        *)
(* backend stop succeeded removes the mapping and leaves the record STOPPED;  *)
(* and when /record stop is repeated for the room and the backend stop        *)
(* eventually no longer fails, a room with a tracked recording and no call    *)
(* is eventually left without a tracked recording.                            *)
C38_StopAfterFailedAutoStop ==
    /\ [][\A t \in tasks \ tasks' :
            (/\ t.kind = "record_stop" /\ t.pc = "persist"
             /\ t.room \notin DOMAIN active_calls)
            => /\ t.room \notin DOMAIN active_recordings'
               /\ t.egress \in DOMAIN db => db'[t.egress].status = STOPPED]_vars
    /\ \A r \in Rooms :
         (/\ []<>(last.op \in {"record_stop_begin", "record_stop_refused"}
                  /\ last.room = r)
          /\ <>[]~(/\ last.op = "record_stop_done"
                   /\ last.room = r
                   /\ Failed(last.calls, "stop_recording")))
         => ((r \in DOMAIN active_recordings /\ r \notin DOMAIN active_calls)
               ~> r \notin DOMAIN active_recordings)

\* After a hangup whose stop had failed, a /record stop in the room without a
\* call stopped the recording
C38_Witness ==
    /\ last.op = "record_stop_done"
    /\ last.resp = RespStopped
    /\ last.room \notin DOMAIN active_calls
    /\ last.room \notin DOMAIN active_recordings
    /\ db[last.egress].status = STOPPED
    /\ backend[last.egress] = "stopped"

====
